---------------------------- MODULE Spec2Model ----------------------------
(***************************************************************************)
(* A model of the geerpc runtime: the server's token bucket and request    *)
(* loop, the client's call table, XClient's broadcast, the server          *)
(* discovery and the heartbeat registry.  Time is a discrete clock `now`   *)
(* that every time.Now() of the code reads.                                *)
(***************************************************************************)
EXTENDS Integers, Sequences, FiniteSets, Bags, TLC

VARIABLES
    now,        \* the wall clock read by time.Now()
    tb,         \* TokenBucket: tokens, capacity, refillAmount, refillInterval, lastRefill
    allowLog,   \* history: the <<time, result>> of every Allow call, in call order
    servers,    \* MultiServersDiscovery.servers
    index,      \* MultiServersDiscovery.index
    getLog,     \* history: the servers returned by Get(RoundRobinSelect) since the last Update
    regTimeout, \* GeeRegistry.timeout
    regServers, \* GeeRegistry.servers: addr -> ServerItem.start
    lastResp,   \* the registry's last HTTP response: method, status, X-Geerpc-Servers
    hb,         \* the Heartbeat call of one server and its background task
    closing,    \* Client.closing
    shutdown,   \* Client.shutdown
    closeLog,   \* history: what each Client.Close call returned, in call order
    codecCloses,\* history: how many times Client.Close called cc.Close()
    seq,        \* Client.seq, the next sequence number
    pending,    \* Client.pending, as the set of its keys
    calls,      \* the Call of every sequence number handed out
    recv,       \* the client's receive task: pc, and the header it holds
    bc,         \* one XClient.Broadcast: pc, e, replyDone, the context, the result
    branches,   \* the goroutines of the Broadcast: pc, clonedReply, err
    writes,     \* history: for every reply object, who wrote into it, in order
    nextObj,    \* the next object reflect.New allocates
    wire,       \* the frames the client has written that the server has not read
    hung,       \* the client has closed its side of the connection
    sent,       \* how many requests the client has written
    loop,       \* the request loop of serveCodec: pc, and the response it is sending
    workers,    \* the handleRequest goroutines, by the seq of their request
    sending,    \* who holds the sending mutex of serveCodec
    out,        \* history: the bag of the (header, body) pairs handed to cc.Write
    readLog,    \* history: the frames the loop has decoded as headers, in order
    rejects,    \* history: how many times tb.Allow() refused a token
    faults,     \* history: how many faulty requests and failing calls there were
    clients,    \* XClient.clients: rpcAddr -> the cached *Client
    conns,      \* the Clients XDial has returned to the XClient: addr, closing, shutdown
    lastDial,   \* history: what the last XClient.dial did and returned
    lastUpdate, \* GeeRegistryDiscovery.lastUpdate
    rdTimeout,  \* GeeRegistryDiscovery.timeout
    httpGets,   \* history: how many GETs were issued to the registry
    rdLog,      \* history: the last call on the GeeRegistryDiscovery and its result
    callers,    \* the goroutines that call XClient.dial: pc, rpcAddr, what dial returned
    xcMu        \* who holds XClient.mu

bucketVars == <<tb, allowLog>>
discVars == <<servers, index, getLog>>
regVars == <<regTimeout, regServers, lastResp, hb>>
clientVars == <<closing, shutdown, closeLog, codecCloses, seq, pending, calls, recv>>
bcVars == <<bc, branches, writes, nextObj>>
srvVars == <<wire, hung, sent, loop, workers, sending, out, readLog, rejects, faults>>
xcVars == <<clients, conns, lastDial>>
rdVars == <<lastUpdate, rdTimeout, httpGets, rdLog>>
dialVars == <<callers, xcMu>>
vars == <<now, bucketVars, discVars, regVars, clientVars, bcVars, srvVars, xcVars, rdVars,
          dialVars>>

\* What an action of one component leaves alone.
notBucket == <<discVars, regVars, clientVars, bcVars, srvVars, xcVars, rdVars, dialVars>>
notDisc == <<bucketVars, regVars, clientVars, bcVars, srvVars, xcVars, rdVars, dialVars>>
notReg == <<bucketVars, discVars, clientVars, bcVars, srvVars, xcVars, rdVars, dialVars>>
notClient == <<bucketVars, discVars, regVars, bcVars, srvVars, xcVars, rdVars, dialVars>>
notBc == <<bucketVars, discVars, regVars, clientVars, srvVars, xcVars, rdVars, dialVars>>
notXc == <<bucketVars, discVars, regVars, clientVars, bcVars, srvVars, rdVars, dialVars>>
notRd == <<bucketVars, regVars, clientVars, bcVars, srvVars, xcVars, dialVars>>
notDial == <<bucketVars, discVars, regVars, clientVars, bcVars, srvVars, rdVars>>
notSrv == <<discVars, regVars, clientVars, bcVars, xcVars, rdVars, dialVars>>

-----------------------------------------------------------------------------
(* Bounds of the model *)

MaxTime == 5          \* the clock stops advancing here
MaxCalls == 5         \* Allow calls on the stand-alone bucket
MaxCapacity == 2      \* capacities tried for the stand-alone bucket
MaxRefill == 2        \* refill amounts tried
MaxInterval == 3      \* refill intervals tried (clock units)
MaxServers == 3       \* length of the discovery's server list
MaxIndex == 4         \* initial round-robin indexes tried: 0..MaxIndex
MaxGets == 5          \* Get calls recorded between two Updates
MaxRegServers == 2    \* server addresses known to the registry model
MaxRegTimeout == 3    \* registry timeouts tried: 0..MaxRegTimeout
MaxDuration == 3      \* heartbeat intervals tried: 0..MaxDuration
MaxCloses == 3        \* Client.Close calls on one client
MaxClientCalls == 2   \* calls handed to one client's Go
MaxBranches == 3      \* servers GetAll returns to a Broadcast
MaxRequests == 11     \* requests a client writes on one connection
MaxInFlight == 2      \* requests the client leaves unanswered before it writes another
MaxRejects == 2       \* rate-limit rejections written on one connection
MaxFaults == 1        \* faulty requests and failing calls on one connection
MaxSrvTime == 1       \* the clock of the server's connection stops advancing here
MaxXcAddrs == 2       \* rpc addresses an XClient dials
MaxConns == 4         \* Clients XDial returns to one XClient
MaxUpdateTimeout == 2 \* timeouts given to NewGeeRegistryDiscovery: 0..MaxUpdateTimeout
MaxHeader == 2        \* entries, and addresses, in the X-Geerpc-Servers header of a response
MaxCallers == 2       \* goroutines that call XClient.dial concurrently
MaxHttpGets == 2      \* GETs one GeeRegistryDiscovery issues

Min(a, b) == IF a < b THEN a ELSE b

Range(s) == {s[i] : i \in 1..Len(s)}

\* time.Now() advances.  A heartbeat ticker that is due fires, and its beat is
\* posted, before the clock moves on.
Tick ==
    /\ now < MaxTime
    /\ hb.pc = "waiting" => now < hb.next
    /\ now' = now + 1
    /\ UNCHANGED <<bucketVars, discVars, regVars, clientVars, bcVars, srvVars, xcVars, rdVars,
                   dialVars>>

-----------------------------------------------------------------------------
(* TokenBucket *)

NewTokenBucket(capacity, refillAmount, refillInterval, t) ==
    [tokens |-> capacity, capacity |-> capacity, refillAmount |-> refillAmount,
     refillInterval |-> refillInterval, lastRefill |-> t]

\* The refill step of Allow: tokensToAdd and the capped top-up.
RefillNoStamp(b, t) ==
    LET tokensToAdd == ((t - b.lastRefill) \div b.refillInterval) * b.refillAmount
    IN IF tokensToAdd > 0
       THEN [b EXCEPT !.tokens = Min(b.tokens + tokensToAdd, b.capacity)]
       ELSE b

Refill(b, t) ==
    LET tokensToAdd == ((t - b.lastRefill) \div b.refillInterval) * b.refillAmount
    IN IF tokensToAdd > 0
       THEN [b EXCEPT !.tokens = Min(b.tokens + tokensToAdd, b.capacity),
                      !.lastRefill = t]
       ELSE b

\* Allow that takes a token whether or not one is left.
AllowAlways(b, t) ==
    LET r == Refill(b, t)
    IN [tb |-> [r EXCEPT !.tokens = r.tokens - 1], ok |-> TRUE]

\* Allow at time t: the bucket after the call and the value returned.
Allow(b, t) ==
    LET r == Refill(b, t)
    IN IF r.tokens > 0
       THEN [tb |-> [r EXCEPT !.tokens = r.tokens - 1], ok |-> TRUE]
       ELSE [tb |-> r, ok |-> FALSE]

\* One Allow call on the stand-alone bucket.
BucketAllow ==
    /\ Len(allowLog) < MaxCalls
    /\ LET a == Allow(tb, now)
       IN /\ tb' = a.tb
          /\ allowLog' = Append(allowLog, <<now, a.ok>>)
    /\ UNCHANGED <<now, notBucket>>

BucketInit ==
    /\ \E c \in 1..MaxCapacity, r \in 1..MaxRefill, i \in 1..MaxInterval :
           tb = NewTokenBucket(c, r, i, now)
    /\ allowLog = <<>>

\* The bucket of a component that has none running.
BucketOff ==
    /\ tb = NewTokenBucket(1, 1, 1, 0)
    /\ allowLog = <<>>

-----------------------------------------------------------------------------
(* MultiServersDiscovery *)

Addrs == 1..MaxServers
RandomSelect == 0
RoundRobinSelect == 1
NoServer == 0                     \* the "" returned beside an error
ErrNoServers == "rpc discovery: no available servers"
ErrSelectMode == "rpc discovery: not supported select mode"

\* Server lists: sequences of distinct addresses.
ServerLists ==
    UNION {{s \in [1..n -> Addrs] : \A i, j \in 1..n : i # j => s[i] # s[j]} : n \in 0..MaxServers}

\* The round-robin step of Get: the index kept for the next call.
RoundRobinStuck(i, n) == i % n

RoundRobinNext(i, n) == (i + 1) % n

\* Get that uses the index without reducing it modulo the length.
GetNoMod(srv, i, mode, rnd) ==
    LET n == Len(srv)
    IN IF n = 0 THEN [s |-> NoServer, err |-> ErrNoServers, index |-> i]
       ELSE IF mode = RandomSelect THEN [s |-> srv[rnd + 1], err |-> "", index |-> i]
       ELSE IF mode = RoundRobinSelect
            THEN [s |-> IF i + 1 \in DOMAIN srv THEN srv[i + 1] ELSE NoServer, err |-> "",
                  index |-> i + 1]
       ELSE [s |-> NoServer, err |-> ErrSelectMode, index |-> i]

\* Get(mode) on list srv with index i; rnd is what d.r.Intn(n) draws.
Get(srv, i, mode, rnd) ==
    LET n == Len(srv)
    IN IF n = 0 THEN [s |-> NoServer, err |-> ErrNoServers, index |-> i]
       ELSE IF mode = RandomSelect THEN [s |-> srv[rnd + 1], err |-> "", index |-> i]
       ELSE IF mode = RoundRobinSelect
            THEN [s |-> srv[(i % n) + 1], err |-> "", index |-> RoundRobinNext(i, n)]
       ELSE [s |-> NoServer, err |-> ErrSelectMode, index |-> i]

DiscGet ==
    /\ Len(getLog) < MaxGets
    /\ \E mode \in {RandomSelect, RoundRobinSelect, 2} :
       \E rnd \in 0..(IF Len(servers) = 0 THEN 0 ELSE Len(servers) - 1) :
          LET g == Get(servers, index, mode, rnd)
          IN /\ index' = g.index
             /\ getLog' = IF mode = RoundRobinSelect /\ g.err = ""
                           THEN Append(getLog, g.s) ELSE getLog
    /\ UNCHANGED <<now, servers, notDisc>>

\* Update(servers): the list is replaced, the index is kept.
DiscUpdate ==
    /\ \E list \in ServerLists : servers' = list
    /\ getLog' = <<>>
    /\ UNCHANGED <<now, index, notDisc>>

\* NewMultiServerDiscovery(servers): index = r.Intn(math.MaxInt32 - 1).
DiscInit ==
    /\ servers \in ServerLists
    /\ index \in 0..MaxIndex
    /\ getLog = <<>>

DiscOff ==
    /\ servers = <<>>
    /\ index = 0
    /\ getLog = <<>>

-----------------------------------------------------------------------------
(* GeeRegistry and Heartbeat *)

RegAddrs == 1..MaxRegServers
HbAddr == 1                        \* the address of the server that calls Heartbeat
defaultTimeout == 5                \* time.Minute * 5, the clock unit being a minute
StatusOK == 200
StatusInternalServerError == 500
StatusMethodNotAllowed == 405

RECURSIVE SortedSeq(_)
\* sort.Strings on a set of addresses.
SortedSeq(S) ==
    IF S = {} THEN <<>>
    ELSE LET m == CHOOSE x \in S : \A y \in S : x <= y
         IN <<m>> \o SortedSeq(S \ {m})

\* putServer: insert the address, or refresh its start time.
putServerKeepStart(srv, addr, t) ==
    IF addr \in DOMAIN srv THEN srv
    ELSE [a \in DOMAIN srv \cup {addr} |-> IF a = addr THEN t ELSE srv[a]]

putServer(srv, addr, t) ==
    [a \in DOMAIN srv \cup {addr} |-> IF a = addr THEN t ELSE srv[a]]

\* The test of aliveServers: r.timeout == 0 || s.start.Add(r.timeout).After(now).
IsAliveNotBefore(start, timeout, t) == timeout = 0 \/ start + timeout >= t

IsAlive(start, timeout, t) == timeout = 0 \/ start + timeout > t

\* aliveServers: the sorted alive addresses, and the map without the others.
aliveServers(srv, timeout, t) ==
    LET keep == {a \in DOMAIN srv : IsAlive(srv[a], timeout, t)}
    IN [alive |-> SortedSeq(keep), servers |-> [a \in keep |-> srv[a]]]

\* ServeHTTP, GET: the header X-Geerpc-Servers carries the alive servers.
ServeGET ==
    LET r == aliveServers(regServers, regTimeout, now)
    IN /\ regServers' = r.servers
       /\ lastResp' = [method |-> "GET", status |-> StatusOK, list |-> r.alive]
       /\ UNCHANGED <<now, regTimeout, hb, notReg>>

\* ServeHTTP, POST with header X-Geerpc-Server = addr; 0 stands for a missing header.
ServePOST(srv, addr, t) ==
    IF addr = 0
    THEN [servers |-> srv, status |-> StatusInternalServerError]
    ELSE [servers |-> putServer(srv, addr, t), status |-> StatusOK]

\* A POST without the header, from any HTTP client.
ServePOSTNoAddr ==
    LET r == ServePOST(regServers, 0, now)
    IN /\ regServers' = r.servers
       /\ lastResp' = [method |-> "POST", status |-> r.status, list |-> <<>>]
       /\ UNCHANGED <<now, regTimeout, hb, notReg>>

\* ServeHTTP, any other method.
ServeOther ==
    /\ lastResp' = [method |-> "PUT", status |-> StatusMethodNotAllowed, list |-> <<>>]
    /\ UNCHANGED <<now, regTimeout, regServers, hb, notReg>>

\* A POST with the header set, from a server that runs its own beat loop.
ServePOSTAddr(a) ==
    LET r == ServePOST(regServers, a, now)
    IN /\ regServers' = r.servers
       /\ lastResp' = [method |-> "POST", status |-> r.status, list |-> <<>>]
       /\ UNCHANGED <<now, regTimeout, hb, notReg>>

\* sendHeartbeat: the POST reaches the registry (ok) or httpClient.Do fails.
sendHeartbeat(addr, ok) ==
    IF ok
    THEN LET r == ServePOST(regServers, addr, now)
         IN /\ regServers' = r.servers
            /\ lastResp' = [method |-> "POST", status |-> r.status, list |-> <<>>]
    ELSE UNCHANGED <<regServers, lastResp>>

\* The condition of the task's loop, for err == nil; err is TRUE for an error.
ErrIgnored(err) == TRUE

ErrIsNil(err) == ~err

\* Heartbeat(registry, addr, duration): the first beat, then the task is started
\* with its ticker.  hb.last is the time of the last beat that was posted.
Heartbeat ==
    /\ hb.pc = "none"
    /\ \E duration \in 0..MaxDuration, ok \in BOOLEAN :
          LET d == IF duration = 0 THEN defaultTimeout - 1 ELSE duration
          IN /\ sendHeartbeat(HbAddr, ok)
             /\ hb' = [pc |-> IF ErrIsNil(~ok) THEN "waiting" ELSE "exited", err |-> ~ok,
                       duration |-> d, next |-> IF ErrIsNil(~ok) THEN now + d ELSE 0,
                       last |-> IF ok THEN now ELSE -1]
    /\ UNCHANGED <<now, regTimeout, notReg>>

\* The task of Heartbeat: for err == nil { <-t.C; err = sendHeartbeat(...) }.
HeartbeatTask ==
    /\ hb.pc = "waiting"
    /\ now = hb.next
    /\ \E ok \in BOOLEAN :
          /\ sendHeartbeat(HbAddr, ok)
          /\ hb' = [hb EXCEPT !.pc = IF ErrIsNil(~ok) THEN "waiting" ELSE "exited",
                               !.err = ~ok,
                               !.next = IF ErrIsNil(~ok) THEN @ + hb.duration ELSE 0,
                               !.last = IF ok THEN now ELSE @]
    /\ UNCHANGED <<now, regTimeout, notReg>>

NoHeartbeat == [pc |-> "none", err |-> FALSE, duration |-> 0, next |-> 0, last |-> -1]

\* New(timeout): an empty registry.
RegInit ==
    /\ regTimeout \in 0..MaxRegTimeout
    /\ regServers = << >>
    /\ lastResp = [method |-> "", status |-> 0, list |-> <<>>]
    /\ hb = NoHeartbeat

RegOff ==
    /\ regTimeout = 0
    /\ regServers = << >>
    /\ lastResp = [method |-> "", status |-> 0, list |-> <<>>]
    /\ hb = NoHeartbeat

-----------------------------------------------------------------------------
(* Client *)

ErrShutdown == "connection is shut down"

\* Close, under client.mu: the flag after the call, whether cc.Close() is
\* called, and the error returned ("" for what cc.Close() returns).
CloseAlways(isClosing) ==
    [closing |-> TRUE, closeCodec |-> TRUE, err |-> ""]

Close(isClosing) ==
    IF isClosing
    THEN [closing |-> TRUE, closeCodec |-> FALSE, err |-> ErrShutdown]
    ELSE [closing |-> TRUE, closeCodec |-> TRUE, err |-> ""]

IsAvailable == ~shutdown /\ ~closing

\* call.done(): call.Done <- call.
doneDropped(c) == c

done(c) == [c EXCEPT !.done = c.done + 1]

\* A user calls client.Close().
ClientClose ==
    /\ Len(closeLog) < MaxCloses
    /\ LET r == Close(closing)
       IN /\ closing' = r.closing
          /\ codecCloses' = IF r.closeCodec THEN codecCloses + 1 ELSE codecCloses
          /\ closeLog' = Append(closeLog, r.err)
    /\ UNCHANGED <<now, shutdown, seq, pending, calls, recv, notClient>>

\* Go, first half: the call is registered under the next seq.  sync tells a
\* Call (which waits with its context) from a plain Go.
GoRegister ==
    /\ seq <= MaxClientCalls
    /\ IsAvailable
    /\ \E sync \in BOOLEAN :
          calls' = calls @@ (seq :> [st |-> "pending", wr |-> "no", done |-> 0, err |-> "",
                                    sync |-> sync, returned |-> "", answered |-> FALSE])
    /\ pending' = pending \cup {seq}
    /\ seq' = seq + 1
    /\ UNCHANGED <<now, closing, shutdown, closeLog, codecCloses, recv, notClient>>

\* Go, second half: the header and the arguments are written.  When the write
\* fails the entry is removed, if still there, and the call completed.
GoWrite(s) ==
    /\ calls[s].wr = "no"
    /\ \E ok \in BOOLEAN :
          IF ok THEN
             /\ calls' = [calls EXCEPT ![s].wr = "ok"]
             /\ UNCHANGED pending
          ELSE IF s \in pending THEN
             /\ calls' = [calls EXCEPT ![s] = done([@ EXCEPT !.wr = "fail", !.st = "writefail",
                                                              !.err = "write"])]
             /\ pending' = pending \ {s}
          ELSE
             /\ calls' = [calls EXCEPT ![s].wr = "fail"]
             /\ UNCHANGED pending
    /\ UNCHANGED <<now, closing, shutdown, closeLog, codecCloses, seq, recv, notClient>>

\* The receive task reads a header: the response to a written request, or a
\* frame with a seq no call waits for (0).  The pending entry is removed.
RecvHeader ==
    /\ recv.pc = "header"
    /\ \E s \in {0} \cup {x \in DOMAIN calls : calls[x].wr = "ok" /\ ~calls[x].answered} :
          /\ recv' = [pc |-> "body", seq |-> s, found |-> s \in pending]
          /\ pending' = pending \ {s}
          /\ calls' = IF s = 0 THEN calls
                       ELSE [calls EXCEPT ![s].answered = TRUE,
                                          ![s].st = IF s \in pending THEN "matched" ELSE @]
    /\ UNCHANGED <<now, closing, shutdown, closeLog, codecCloses, seq, notClient>>

\* The receive task reads the body: (a) no pending call, the body is dropped;
\* (b) header.error is set; (c) the body is decoded into call.reply.
RecvBody ==
    /\ recv.pc = "body"
    /\ \E outcome \in {"replied", "srverr", "decodeerr"} :
          /\ calls' = IF recv.found
                       THEN [calls EXCEPT ![recv.seq] =
                                done([@ EXCEPT !.st = outcome, !.err = outcome])]
                       ELSE calls
          /\ recv' = [pc |-> IF outcome = "decodeerr" THEN "broken" ELSE "header",
                       seq |-> 0, found |-> FALSE]
    /\ UNCHANGED <<now, closing, shutdown, closeLog, codecCloses, seq, pending, notClient>>

\* A read error ends the receive task: shutdown is set and every pending call
\* is completed with the error.
RecvTerminate ==
    /\ recv.pc \in {"header", "broken"}
    /\ shutdown' = TRUE
    /\ calls' = [s \in DOMAIN calls |->
                    IF s \in pending
                    THEN done([calls[s] EXCEPT !.st = "terminated", !.err = ErrShutdown])
                    ELSE calls[s]]
    /\ pending' = {}
    /\ recv' = [pc |-> "exited", seq |-> 0, found |-> FALSE]
    /\ UNCHANGED <<now, closing, closeLog, codecCloses, seq, notClient>>

\* The context of a synchronous Call fires: the pending entry is removed and
\* Call returns the context's error.
CallCancel(s) ==
    /\ calls[s].sync /\ calls[s].returned = "" /\ calls[s].wr # "no"
    /\ calls' = [calls EXCEPT ![s].returned = "ctx",
                               ![s].st = IF s \in pending THEN "cancelled" ELSE @]
    /\ pending' = pending \ {s}
    /\ UNCHANGED <<now, closing, shutdown, closeLog, codecCloses, seq, recv, notClient>>

\* A synchronous Call receives the done signal and returns call.Error.
CallReturn(s) ==
    /\ calls[s].sync /\ calls[s].returned = "" /\ calls[s].done > 0
    /\ calls' = [calls EXCEPT ![s].returned = "done"]
    /\ UNCHANGED <<now, closing, shutdown, closeLog, codecCloses, seq, pending, recv, notClient>>

ClientInit ==
    /\ closing = FALSE
    /\ shutdown = FALSE
    /\ closeLog = <<>>
    /\ codecCloses = 0
    /\ seq = 1
    /\ pending = {}
    /\ calls = << >>
    /\ recv = [pc |-> "header", seq |-> 0, found |-> FALSE]

-----------------------------------------------------------------------------
(* XClient.Broadcast *)

Nil == [branch |-> 0, kind |-> "nil"]     \* a nil error
ReplyObj == 0             \* the object the caller's reply points to
NoObj == -1               \* a nil clonedReply
ErrGetAll == [branch |-> 0, kind |-> "discovery"]

\* clonedReply = reflect.New(...).Interface(): fresh is the object allocated.
NewCloneAliased(fresh) == ReplyObj

NewClone(fresh) == fresh

\* Broadcast up to the fan-out: GetAll, then e, replyDone and the child context.
BroadcastStart ==
    /\ bc.pc = "idle"
    /\ \E n \in 0..MaxBranches, ok \in BOOLEAN, replyNil \in BOOLEAN :
          IF ok THEN
             /\ bc' = [bc EXCEPT !.pc = "fanout", !.replyNil = replyNil,
                                  !.replyDone = replyNil]
             /\ branches' = [b \in 1..n |-> [pc |-> "new", clone |-> NoObj, err |-> Nil]]
          ELSE
             /\ bc' = [bc EXCEPT !.pc = "returned", !.replyNil = replyNil,
                                  !.getAllErr = TRUE, !.result = ErrGetAll]
             /\ UNCHANGED branches
    /\ UNCHANGED <<now, writes, nextObj, notBc>>

\* A branch allocates its clone of the reply, when the reply is not nil.
BranchClone(b) ==
    /\ branches[b].pc = "new"
    /\ IF bc.replyNil
       THEN /\ branches' = [branches EXCEPT ![b].pc = "cloned"]
            /\ UNCHANGED <<writes, nextObj>>
       ELSE LET obj == NewClone(nextObj)
            IN /\ branches' = [branches EXCEPT ![b].pc = "cloned", ![b].clone = obj]
               /\ writes' = IF obj \in DOMAIN writes THEN writes ELSE writes @@ (obj :> <<>>)
               /\ nextObj' = nextObj + 1
    /\ UNCHANGED <<now, bc, notBc>>

\* xc.call(rpcAddr, ctx, serviceMethod, args, clonedReply) returns: nil after
\* the reply was decoded into the clone, or an error; the context's error
\* only when the context is done.  A failed call may have written the clone.
BranchCall(b) ==
    /\ branches[b].pc = "cloned"
    /\ \E kind \in {"ok", "call", "ctx"}, wrote \in BOOLEAN :
          /\ kind = "ctx" => bc.ctxDone
          /\ kind = "ok" => wrote
          /\ branches' = [branches EXCEPT ![b].pc = "called",
                              ![b].err = IF kind = "ok" THEN Nil ELSE [branch |-> b, kind |-> kind]]
          /\ writes' = IF wrote /\ branches[b].clone # NoObj
                        THEN [writes EXCEPT ![branches[b].clone] = Append(@, b)]
                        ELSE writes
    /\ UNCHANGED <<now, bc, nextObj, notBc>>

\* if err != nil && e == nil
RecordsAnyError(err, e) == err # Nil

RecordsError(err, e) == err # Nil /\ e = Nil

\* if err == nil && !replyDone
CopiesReply(err, replyDone) == err = Nil /\ ~replyDone

\* The critical section of a branch, under mu, then wg.Done().
BranchRecord(b) ==
    /\ branches[b].pc = "called"
    /\ LET err == branches[b].err
           first == RecordsError(err, bc.e)
           copy == CopiesReply(err, bc.replyDone)
       IN /\ bc' = [bc EXCEPT !.e = IF first THEN err ELSE @,
                               !.cancelCalls = IF first THEN @ + 1 ELSE @,
                               !.ctxDone = IF first THEN TRUE ELSE @,
                               !.replyDone = IF copy THEN TRUE ELSE @,
                               !.order = Append(@, b)]
          /\ writes' = IF copy THEN [writes EXCEPT ![ReplyObj] = Append(@, b)] ELSE writes
    /\ branches' = [branches EXCEPT ![b].pc = "done"]
    /\ UNCHANGED <<now, nextObj, notBc>>

\* The context handed to Broadcast is cancelled or reaches its deadline.
ParentCancel ==
    /\ bc.pc = "fanout"
    /\ ~bc.ctxDone
    /\ bc' = [bc EXCEPT !.ctxDone = TRUE]
    /\ UNCHANGED <<now, branches, writes, nextObj, notBc>>

\* wg.Wait() is over: return e.
BroadcastReturn ==
    /\ bc.pc = "fanout"
    /\ \A b \in DOMAIN branches : branches[b].pc = "done"
    /\ bc' = [bc EXCEPT !.pc = "returned", !.result = bc.e]
    /\ UNCHANGED <<now, branches, writes, nextObj, notBc>>

BcInit ==
    /\ bc = [pc |-> "idle", replyNil |-> FALSE, getAllErr |-> FALSE, e |-> Nil,
             replyDone |-> FALSE, cancelCalls |-> 0, ctxDone |-> FALSE,
             result |-> Nil, order |-> <<>>]
    /\ branches = << >>
    /\ writes = (ReplyObj :> <<>>)
    /\ nextObj = 1

-----------------------------------------------------------------------------
(* Server: serveCodec *)

\* serveCodec's bucket: NewTokenBucket(10, 2, time.Second), the clock unit
\* being a second.
ServerCapacity == 10
ServerRefillAmount == 2
ServerRefillInterval == 1

\* A ServiceMethod is a sequence of name parts and dots.
Dot == "."
ServiceMethods ==
    {<<"Svc", Dot, "Echo">>, <<"SvcEcho">>, <<"Nope", Dot, "Echo">>, <<"Svc", Dot, "Nope">>}
GoodMethod == <<"Svc", Dot, "Echo">>
\* server.serviceMap: one service, Svc, with one method, Echo.
serviceMap == [name \in {<<"Svc">>} |-> {<<"Echo">>}]

\* strings.LastIndex(serviceMethod, "."), counted from 1; 0 when there is none.
LastIndex(sm) ==
    IF \E i \in 1..Len(sm) : sm[i] = Dot
    THEN CHOOSE i \in 1..Len(sm) : sm[i] = Dot /\ \A j \in (i + 1)..Len(sm) : sm[j] # Dot
    ELSE 0

\* findService: the error, "" when the service and the method are found.
findService(sm) ==
    LET dot == LastIndex(sm)
        serviceName == SubSeq(sm, 1, dot - 1)
        methodName == SubSeq(sm, dot + 1, Len(sm))
    IN IF dot = 0 THEN "rpc server: service/method request ill-formed"
       ELSE IF serviceName \notin DOMAIN serviceMap THEN "rpc server: can't find service"
       ELSE IF methodName \notin serviceMap[serviceName] THEN "rpc server: can't find method"
       ELSE ""

Header(sm, n, err) == [ServiceMethod |-> sm, Seq |-> n, Error |-> err]

\* The response the loop writes when no token is left:
\* sendResponse(cc, &codec.Header{ServiceMethod: ""}, "rate limit exceeded", sending).
RateLimitResponse == [h |-> Header(<<>>, 0, ""), body |-> "rate limit exceeded", by |-> "reject"]

\* The response to a request that readRequest returned with an error.
ErrorResponse(h, err) ==
    [h |-> Header(h.ServiceMethod, h.Seq, err), body |-> "invalidRequest", by |-> "loop"]

LoopTask == <<"loop">>
WorkerTask(n) == <<"worker", n>>

\* The responses written so far that answer a request.
Answered == BagCardinality(out) - CopiesIn(RateLimitResponse, out)

\* The client writes request n: its header, then its body.
ClientSend ==
    /\ ~hung
    /\ sent < MaxRequests
    /\ sent - Answered < MaxInFlight
    /\ \E sm \in ServiceMethods, decodable \in BOOLEAN :
          /\ (sm # GoodMethod \/ ~decodable) => faults < MaxFaults
          /\ faults' = IF sm # GoodMethod \/ ~decodable THEN faults + 1 ELSE faults
          /\ wire' = wire \o << [kind |-> "hdr", h |-> Header(sm, sent + 1, "")],
                                 [kind |-> "body", seq |-> sent + 1, decodable |-> decodable] >>
    /\ sent' = sent + 1
    /\ UNCHANGED <<now, tb, allowLog, hung, loop, workers, sending, out, readLog, rejects, notSrv>>

\* The client closes the connection.
ClientHangup ==
    /\ ~hung
    /\ hung' = TRUE
    /\ UNCHANGED <<now, tb, allowLog, wire, sent, loop, workers, sending, out, readLog, rejects,
                   faults, notSrv>>

\* The head of the loop: tb.Allow(); without a token the rejection is sent.
LoopAllow ==
    /\ loop.pc = "allow"
    /\ LET a == Allow(tb, now)
       IN /\ ~a.ok => rejects < MaxRejects
          /\ tb' = a.tb
          /\ loop' = IF a.ok THEN [pc |-> "read", resp |-> RateLimitResponse]
                      ELSE [pc |-> "send", resp |-> RateLimitResponse]
          /\ rejects' = IF a.ok THEN rejects ELSE rejects + 1
    /\ UNCHANGED <<now, allowLog, wire, hung, sent, workers, sending, out, readLog, faults, notSrv>>

\* cc.ReadHeader on frame f: gob decodes the next value of the stream into a
\* Header, and fails on a value that is not one.
ReadHeader(f) == IF f.kind = "hdr" THEN [ok |-> TRUE, h |-> f.h]
                 ELSE [ok |-> FALSE, h |-> Header(<<>>, 0, "")]

\* readRequest on the frames w: what it returns (req is nil or holds header h;
\* err is "" for nil), how many frames it consumed, and whether it decoded a
\* frame as a header.  On an empty stream the peer has closed: io.EOF.
readRequest(w) ==
    IF w = <<>> THEN [req |-> FALSE, h |-> Header(<<>>, 0, ""), err |-> "EOF", used |-> 0]
    ELSE LET r == ReadHeader(w[1])
         IN IF ~r.ok
            THEN [req |-> FALSE, h |-> r.h, err |-> "gob: type mismatch", used |-> 1]
            ELSE IF findService(r.h.ServiceMethod) # ""
            THEN [req |-> TRUE, h |-> r.h, err |-> findService(r.h.ServiceMethod), used |-> 1]
            ELSE IF Len(w) < 2
            THEN [req |-> TRUE, h |-> r.h, err |-> "EOF", used |-> 1]
            ELSE IF w[2].kind = "body" /\ w[2].decodable
            THEN [req |-> TRUE, h |-> r.h, err |-> "", used |-> 2]
            ELSE [req |-> TRUE, h |-> r.h, err |-> "rpc server: read body err", used |-> 2]

\* The loop reads a request: it blocks on an empty stream until the peer
\* closes; then break, an error response, or a worker.
LoopRead ==
    /\ loop.pc = "read"
    /\ wire # <<>> \/ hung
    /\ LET r == readRequest(wire)
       IN /\ wire' = SubSeq(wire, r.used + 1, Len(wire))
          /\ readLog' = IF wire = <<>> THEN readLog ELSE Append(readLog, wire[1])
          /\ IF r.err # "" /\ ~r.req THEN
                /\ loop' = [loop EXCEPT !.pc = "wait"]
                /\ UNCHANGED workers
             ELSE IF r.err # "" THEN
                /\ loop' = [pc |-> "send", resp |-> ErrorResponse(r.h, r.err)]
                /\ UNCHANGED workers
             ELSE
                /\ loop' = [loop EXCEPT !.pc = "allow"]
                /\ workers' = workers @@ (r.h.Seq :> [pc |-> "call", h |-> r.h,
                                                       resp |-> RateLimitResponse])
    /\ UNCHANGED <<now, tb, allowLog, hung, sent, sending, out, rejects, faults, notSrv>>

\* sending.Lock() returns only when no task holds the mutex.
MutexIgnored(holders) == TRUE

MutexFree(holders) == holders = {}

\* sendResponse, first half: sending.Lock().
LoopLock ==
    /\ loop.pc = "send"
    /\ MutexFree(sending)
    /\ sending' = {LoopTask}
    /\ loop' = [loop EXCEPT !.pc = "write"]
    /\ UNCHANGED <<now, tb, allowLog, wire, hung, sent, workers, out, readLog, rejects, faults,
                   notSrv>>

\* sendResponse, second half: cc.Write(h, body), sending.Unlock(); continue.
LoopWrite ==
    /\ loop.pc = "write"
    /\ out' = out (+) SetToBag({loop.resp})
    /\ sending' = sending \ {LoopTask}
    /\ loop' = [loop EXCEPT !.pc = "allow"]
    /\ UNCHANGED <<now, tb, allowLog, wire, hung, sent, workers, readLog, rejects, faults, notSrv>>

\* The counter of wg: wg.Add(1) for each worker launched, wg.Done() when its
\* handleRequest returns.
wg == Cardinality({n \in DOMAIN workers : workers[n].pc # "done"})

\* wg.Wait() returns when the counter is zero.
WaitSkipped(counter) == TRUE

Wait(counter) == counter = 0

\* After the loop: wg.Wait(), then cc.Close().
LoopClose ==
    /\ loop.pc = "wait"
    /\ Wait(wg)
    /\ loop' = [loop EXCEPT !.pc = "closed"]
    /\ UNCHANGED <<now, tb, allowLog, wire, hung, sent, workers, sending, out, readLog, rejects,
                   faults, notSrv>>

\* handleRequest waits in its select (or on <-called): neither the timer nor
\* the send on the unbuffered channel called has been taken yet.
SelectStillOpen(w) == w.pc = "call" \/ (w.pc = "done" /\ w.resp.by = "timer")

SelectOpen(w) == w.pc = "call"

\* The response of handleRequest when the timer of handleTimeout fires.
TimeoutResponse(h) ==
    [h |-> Header(h.ServiceMethod, h.Seq, "rpc server: request handle timeout"),
     body |-> "invalidRequest", by |-> "timer"]

\* handleRequest: req.svc.call returns, with an error or without, and its send
\* on called is received.
WorkerCall(n) ==
    /\ SelectOpen(workers[n])
    /\ \E ok \in BOOLEAN :
          /\ ~ok => faults < MaxFaults
          /\ faults' = IF ok THEN faults ELSE faults + 1
          /\ workers' = [workers EXCEPT ![n].pc = "send",
                 ![n].resp = IF ok THEN [h |-> workers[n].h, body |-> "replyv", by |-> "worker"]
                             ELSE [h |-> Header(workers[n].h.ServiceMethod, n, "boom"),
                                   body |-> "invalidRequest", by |-> "worker"]]
    /\ UNCHANGED <<now, tb, allowLog, wire, hung, sent, loop, sending, out, readLog, rejects,
                   notSrv>>

\* handleRequest with handleTimeout > 0: the timer wins the select.  The
\* invocation goroutine stays blocked on its send on called.
WorkerTimeout(n) ==
    /\ SelectOpen(workers[n])
    /\ faults < MaxFaults
    /\ faults' = faults + 1
    /\ workers' = [workers EXCEPT ![n].pc = "send", ![n].resp = TimeoutResponse(workers[n].h)]
    /\ UNCHANGED <<now, tb, allowLog, wire, hung, sent, loop, sending, out, readLog, rejects,
                   notSrv>>

\* The worker's sendResponse, first half: sending.Lock().
WorkerLock(n) ==
    /\ workers[n].pc = "send"
    /\ MutexFree(sending)
    /\ sending' = {WorkerTask(n)}
    /\ workers' = [workers EXCEPT ![n].pc = "write"]
    /\ UNCHANGED <<now, tb, allowLog, wire, hung, sent, loop, out, readLog, rejects, faults,
                   notSrv>>

\* The worker's sendResponse, second half, and wg.Done().
WorkerWrite(n) ==
    /\ workers[n].pc = "write"
    /\ out' = out (+) SetToBag({workers[n].resp})
    /\ sending' = sending \ {WorkerTask(n)}
    /\ workers' = [workers EXCEPT ![n].pc = "done"]
    /\ UNCHANGED <<now, tb, allowLog, wire, hung, sent, loop, readLog, rejects, faults, notSrv>>

\* time.Now() advances on the server.
SrvTick ==
    /\ now < MaxSrvTime
    /\ now' = now + 1
    /\ UNCHANGED <<bucketVars, srvVars, notSrv>>

\* serveCodec starts on a fresh connection.
SrvInit ==
    /\ wire = <<>>
    /\ hung = FALSE
    /\ sent = 0
    /\ loop = [pc |-> "allow", resp |-> RateLimitResponse]
    /\ workers = << >>
    /\ sending = {}
    /\ out = EmptyBag
    /\ readLog = <<>>
    /\ rejects = 0
    /\ faults = 0

-----------------------------------------------------------------------------
(* XClient: the cache of clients *)

XcAddrs == 1..MaxXcAddrs

\* Client.IsAvailable of a Client the XClient holds.
clientIsAvailable(c) == ~c.shutdown /\ ~c.closing

\* What XDial returns when it succeeds.
NewClient(addr) == [addr |-> addr, closing |-> FALSE, shutdown |-> FALSE]

\* The map m without key k: delete(m, k).
delete(m, k) == [x \in DOMAIN m \ {k} |-> m[x]]

\* dial without the delete of the stale entry.
dialKeepStale(cl, cs, rpcAddr, dialOk) ==
    LET stale == rpcAddr \in DOMAIN cl /\ ~clientIsAvailable(cs[cl[rpcAddr]])
        cs1 == IF stale THEN [cs EXCEPT ![cl[rpcAddr]].closing = Close(@).closing] ELSE cs
        steps1 == IF stale THEN <<"close", "delete">> ELSE <<>>
        id == Len(cs1) + 1
    IN IF rpcAddr \in DOMAIN cl /\ ~stale
       THEN [clients |-> cl, conns |-> cs1, client |-> cl[rpcAddr], err |-> "", steps |-> steps1]
       ELSE IF ~dialOk
       THEN [clients |-> cl, conns |-> cs1, client |-> 0, err |-> "dial error",
             steps |-> steps1 \o <<"dial">>]
       ELSE [clients |-> [x \in DOMAIN cl \cup {rpcAddr} |-> IF x = rpcAddr THEN id ELSE cl[x]],
             conns |-> Append(cs1, NewClient(rpcAddr)), client |-> id, err |-> "",
             steps |-> steps1 \o <<"dial", "cache">>]

\* xc.dial(rpcAddr), under xc.mu, on the cache cl and the Clients cs; dialOk is
\* whether XDial succeeds.  The result holds the cache and the Clients after
\* the call, the client and the error returned (client 0 is nil, err "" is
\* nil), and what the call did, in order.
dial(cl, cs, rpcAddr, dialOk) ==
    LET stale == rpcAddr \in DOMAIN cl /\ ~clientIsAvailable(cs[cl[rpcAddr]])
        cs1 == IF stale THEN [cs EXCEPT ![cl[rpcAddr]].closing = Close(@).closing] ELSE cs
        cl1 == IF stale THEN delete(cl, rpcAddr) ELSE cl
        steps1 == IF stale THEN <<"close", "delete">> ELSE <<>>
        id == Len(cs1) + 1
    IN IF rpcAddr \in DOMAIN cl1
       THEN [clients |-> cl1, conns |-> cs1, client |-> cl1[rpcAddr], err |-> "", steps |-> steps1]
       ELSE IF ~dialOk
       THEN [clients |-> cl1, conns |-> cs1, client |-> 0, err |-> "dial error",
             steps |-> steps1 \o <<"dial">>]
       ELSE [clients |-> cl1 @@ (rpcAddr :> id),
             conns |-> Append(cs1, NewClient(rpcAddr)), client |-> id, err |-> "",
             steps |-> steps1 \o <<"dial", "cache">>]

\* One call of xc.dial(rpcAddr).
XcDial(rpcAddr) ==
    /\ Len(conns) < MaxConns
    /\ \E dialOk \in BOOLEAN :
          LET r == dial(clients, conns, rpcAddr, dialOk)
          IN /\ clients' = r.clients
             /\ conns' = r.conns
             /\ lastDial' = [addr |-> rpcAddr, client |-> r.client, err |-> r.err,
                             steps |-> r.steps]
    /\ UNCHANGED <<now, notXc>>

\* The connection of a Client fails: its receive task sets shutdown.
XcShutdown(id) ==
    /\ ~conns[id].shutdown
    /\ conns' = [conns EXCEPT ![id].shutdown = TRUE]
    /\ UNCHANGED <<now, clients, lastDial, notXc>>

\* XClient.Close: every cached Client is closed and deleted.
XcClose ==
    /\ clients # << >>
    /\ conns' = [id \in DOMAIN conns |->
                    IF \E a \in DOMAIN clients : clients[a] = id
                    THEN [conns[id] EXCEPT !.closing = Close(@).closing] ELSE conns[id]]
    /\ clients' = << >>
    /\ UNCHANGED <<now, lastDial, notXc>>

\* NewXClient: an empty cache.
XcInit ==
    /\ clients = << >>
    /\ conns = << >>
    /\ lastDial = [addr |-> 0, client |-> 0, err |-> "", steps |-> <<>>]

-----------------------------------------------------------------------------
(* XClient: concurrent callers of dial *)

Callers == 1..MaxCallers

\* dial, first half, on the cache cl and the Clients cs: the lookup, and the
\* eviction of a cached client that is not available.  client 0 is nil.
lookup(cl, cs, rpcAddr) ==
    LET stale == rpcAddr \in DOMAIN cl /\ ~clientIsAvailable(cs[cl[rpcAddr]])
        cs1 == IF stale THEN [cs EXCEPT ![cl[rpcAddr]].closing = Close(@).closing] ELSE cs
        cl1 == IF stale THEN delete(cl, rpcAddr) ELSE cl
    IN [clients |-> cl1, conns |-> cs1,
        client |-> IF rpcAddr \in DOMAIN cl1 THEN cl1[rpcAddr] ELSE 0]

\* dial, second half, when client == nil: XDial, and the store in the cache.
connect(cl, cs, rpcAddr, dialOk) ==
    IF ~dialOk
    THEN [clients |-> cl, conns |-> cs, client |-> 0, err |-> "dial error"]
    ELSE [clients |-> [x \in DOMAIN cl \cup {rpcAddr} |->
                          IF x = rpcAddr THEN Len(cs) + 1 ELSE cl[x]],
          conns |-> Append(cs, NewClient(rpcAddr)), client |-> Len(cs) + 1, err |-> ""]

\* A goroutine enters xc.dial(rpcAddr): xc.mu.Lock().
DialLock(p, rpcAddr) ==
    /\ callers[p].pc = "idle"
    /\ MutexFree(xcMu)
    /\ xcMu' = {p}
    /\ callers' = [callers EXCEPT ![p] = [pc |-> "locked", addr |-> rpcAddr, client |-> 0,
                                          err |-> ""]]
    /\ UNCHANGED <<now, xcVars, notDial>>

\* The lookup; with a client in hand dial returns it and unlocks.
DialLookup(p) ==
    /\ callers[p].pc = "locked"
    /\ LET r == lookup(clients, conns, callers[p].addr)
       IN /\ clients' = r.clients
          /\ conns' = r.conns
          /\ IF r.client # 0
             THEN /\ callers' = [callers EXCEPT ![p].pc = "idle", ![p].client = r.client]
                  /\ xcMu' = xcMu \ {p}
             ELSE /\ callers' = [callers EXCEPT ![p].pc = "dialing"]
                  /\ UNCHANGED xcMu
    /\ UNCHANGED <<now, lastDial, notDial>>

\* XDial returns; dial stores the client or returns the error, and unlocks.
DialConnect(p) ==
    /\ callers[p].pc = "dialing"
    /\ \E dialOk \in BOOLEAN :
          /\ dialOk => Len(conns) < MaxConns
          /\ LET r == connect(clients, conns, callers[p].addr, dialOk)
             IN /\ clients' = r.clients
                /\ conns' = r.conns
                /\ callers' = [callers EXCEPT ![p].pc = "idle", ![p].client = r.client,
                                              ![p].err = r.err]
    /\ xcMu' = xcMu \ {p}
    /\ UNCHANGED <<now, lastDial, notDial>>

\* XClient.Close, which runs under xc.mu as a whole.
DialClose ==
    /\ MutexFree(xcMu)
    /\ XcClose

\* No goroutine is inside dial.
DialInit ==
    /\ callers = [p \in Callers |-> [pc |-> "idle", addr |-> 0, client |-> 0, err |-> ""]]
    /\ xcMu = {}

-----------------------------------------------------------------------------
(* GeeRegistryDiscovery *)

defaultUpdateTimeout == 10         \* time.Second * 10, the clock unit being a second

\* The zero time.Time of a new GeeRegistryDiscovery: older than any timeout.
ZeroTime == 0 - (defaultUpdateTimeout + MaxUpdateTimeout)

\* The entries of an X-Geerpc-Servers header after strings.Split on ",": at
\* least one, each an address or, trimmed, the empty string (0).
Headers == UNION {[1..n -> 0..MaxHeader] : n \in 1..MaxHeader}

\* strings.TrimSpace(server) != "".
NotBlank(server) == server # 0

\* Refresh that also serves the cache at the instant lastUpdate + timeout.
RefreshLate(srv, lu, timeout, t, resp) ==
    IF lu + timeout >= t
    THEN [servers |-> srv, lastUpdate |-> lu, err |-> "", get |-> FALSE]
    ELSE IF ~resp.ok
    THEN [servers |-> srv, lastUpdate |-> lu, err |-> "http error", get |-> TRUE]
    ELSE [servers |-> SelectSeq(resp.header, NotBlank), lastUpdate |-> t, err |-> "",
          get |-> TRUE]

\* Refresh that stamps lastUpdate although the GET failed.
RefreshStampsOnError(srv, lu, timeout, t, resp) ==
    IF lu + timeout > t
    THEN [servers |-> srv, lastUpdate |-> lu, err |-> "", get |-> FALSE]
    ELSE IF ~resp.ok
    THEN [servers |-> srv, lastUpdate |-> t, err |-> "http error", get |-> TRUE]
    ELSE [servers |-> SelectSeq(resp.header, NotBlank), lastUpdate |-> t, err |-> "",
          get |-> TRUE]

\* Refresh, under d.mu, at time t on the list srv last updated at lu; resp is
\* what http.Get returns.  get tells whether the GET was issued.
Refresh(srv, lu, timeout, t, resp) ==
    IF lu + timeout > t
    THEN [servers |-> srv, lastUpdate |-> lu, err |-> "", get |-> FALSE]
    ELSE IF ~resp.ok
    THEN [servers |-> srv, lastUpdate |-> lu, err |-> "http error", get |-> TRUE]
    ELSE [servers |-> SelectSeq(resp.header, NotBlank), lastUpdate |-> t, err |-> "",
          get |-> TRUE]

\* What http.Get can return; a call that issues no GET sees no response.
NoResponse == [ok |-> FALSE, header |-> <<0>>]

Responses(lu, timeout, t) ==
    IF lu + timeout > t THEN {NoResponse}
    ELSE {NoResponse} \cup {[ok |-> TRUE, header |-> h] : h \in Headers}

\* What d.r.Intn(n) can draw in a Get(mode) on a list of n servers; it is
\* drawn for RandomSelect only.
Draws(mode, n) == IF mode = RandomSelect /\ n > 0 THEN 0..(n - 1) ELSE {0}

\* GeeRegistryDiscovery.Get(mode): Refresh, then MultiServersDiscovery.Get.
RdGet ==
    \E mode \in {RandomSelect, RoundRobinSelect},
       resp \in Responses(lastUpdate, rdTimeout, now) :
       LET r == Refresh(servers, lastUpdate, rdTimeout, now, resp)
       IN \E rnd \in Draws(mode, Len(r.servers)) :
          LET g == Get(r.servers, index, mode, rnd)
          IN
          /\ r.get => httpGets < MaxHttpGets
          /\ servers' = r.servers
          /\ lastUpdate' = r.lastUpdate
          /\ httpGets' = IF r.get THEN httpGets + 1 ELSE httpGets
          /\ index' = IF r.err # "" THEN index ELSE g.index
          /\ rdLog' = IF r.err # ""
                      THEN [op |-> "Get", get |-> r.get, err |-> r.err, s |-> NoServer,
                            list |-> <<>>]
                      ELSE [op |-> "Get", get |-> r.get, err |-> g.err, s |-> g.s, list |-> <<>>]
          /\ UNCHANGED <<now, getLog, rdTimeout, notRd>>

\* GeeRegistryDiscovery.GetAll(): Refresh, then MultiServersDiscovery.GetAll.
RdGetAll ==
    \E resp \in Responses(lastUpdate, rdTimeout, now) :
       LET r == Refresh(servers, lastUpdate, rdTimeout, now, resp)
       IN /\ r.get => httpGets < MaxHttpGets
          /\ servers' = r.servers
          /\ lastUpdate' = r.lastUpdate
          /\ httpGets' = IF r.get THEN httpGets + 1 ELSE httpGets
          /\ rdLog' = [op |-> "GetAll", get |-> r.get, err |-> r.err, s |-> NoServer,
                       list |-> IF r.err # "" THEN <<>> ELSE r.servers]
          /\ UNCHANGED <<now, index, getLog, rdTimeout, notRd>>

\* GeeRegistryDiscovery.Update(servers).
RdUpdate ==
    /\ \E list \in ServerLists : servers' = list
    /\ lastUpdate' = now
    /\ rdLog' = [op |-> "Update", get |-> FALSE, err |-> "", s |-> NoServer, list |-> <<>>]
    /\ UNCHANGED <<now, index, getLog, rdTimeout, httpGets, notRd>>

NoRdCall == [op |-> "", get |-> FALSE, err |-> "", s |-> NoServer, list |-> <<>>]

\* NewGeeRegistryDiscovery(registerAddr, timeout): the timeout kept.
NewGeeRegistryDiscovery(timeout) == IF timeout = 0 THEN defaultUpdateTimeout ELSE timeout

RdInit ==
    /\ servers = <<>>
    /\ index \in 0..MaxIndex
    /\ getLog = <<>>
    /\ lastUpdate = ZeroTime
    /\ rdTimeout \in {NewGeeRegistryDiscovery(timeout) : timeout \in 0..MaxUpdateTimeout}
    /\ httpGets = 0
    /\ rdLog = NoRdCall

RdOff ==
    /\ lastUpdate = ZeroTime
    /\ rdTimeout = defaultUpdateTimeout
    /\ httpGets = 0
    /\ rdLog = NoRdCall

-----------------------------------------------------------------------------
(* Specifications *)

NextBucket == BucketAllow \/ Tick

InitBucket == now = 0 /\ BucketInit /\ DiscOff /\ RegOff /\ ClientInit /\ BcInit /\ SrvInit /\ XcInit /\ DialInit /\ RdOff

SpecBucket == InitBucket /\ [][NextBucket]_vars

NextDisc == DiscGet \/ DiscUpdate

InitDisc == now = 0 /\ BucketOff /\ DiscInit /\ RegOff /\ ClientInit /\ BcInit /\ SrvInit /\ XcInit /\ DialInit /\ RdOff

SpecDisc == InitDisc /\ [][NextDisc]_vars

NextReg ==
    \/ ServeGET
    \/ ServePOSTNoAddr
    \/ ServeOther
    \/ \E a \in RegAddrs \ {HbAddr} : ServePOSTAddr(a)
    \/ Heartbeat
    \/ HeartbeatTask
    \/ Tick

InitReg == now = 0 /\ BucketOff /\ DiscOff /\ RegInit /\ ClientInit /\ BcInit /\ SrvInit /\ XcInit /\ DialInit /\ RdOff

SpecReg == InitReg /\ [][NextReg]_vars

NextClient ==
    \/ ClientClose
    \/ GoRegister
    \/ \E s \in DOMAIN calls : GoWrite(s)
    \/ RecvHeader
    \/ RecvBody
    \/ RecvTerminate
    \/ \E s \in DOMAIN calls : CallCancel(s)
    \/ \E s \in DOMAIN calls : CallReturn(s)

InitClient == now = 0 /\ BucketOff /\ DiscOff /\ RegOff /\ ClientInit /\ BcInit /\ SrvInit /\ XcInit /\ DialInit /\ RdOff

SpecClient == InitClient /\ [][NextClient]_vars

NextBroadcast ==
    \/ BroadcastStart
    \/ \E b \in DOMAIN branches : BranchClone(b)
    \/ \E b \in DOMAIN branches : BranchCall(b)
    \/ \E b \in DOMAIN branches : BranchRecord(b)
    \/ ParentCancel
    \/ BroadcastReturn

InitBroadcast == now = 0 /\ BucketOff /\ DiscOff /\ RegOff /\ ClientInit /\ BcInit /\ SrvInit /\ XcInit /\ DialInit /\ RdOff

SpecBroadcast == InitBroadcast /\ [][NextBroadcast]_vars

Next ==
    \/ ClientSend
    \/ ClientHangup
    \/ LoopAllow
    \/ LoopRead
    \/ LoopLock
    \/ LoopWrite
    \/ LoopClose
    \/ \E n \in DOMAIN workers : WorkerCall(n)
    \/ \E n \in DOMAIN workers : WorkerTimeout(n)
    \/ \E n \in DOMAIN workers : WorkerLock(n)
    \/ \E n \in DOMAIN workers : WorkerWrite(n)
    \/ SrvTick

Init ==
    /\ now = 0
    /\ tb = NewTokenBucket(ServerCapacity, ServerRefillAmount, ServerRefillInterval, now)
    /\ allowLog = <<>>
    /\ DiscOff /\ RegOff /\ ClientInit /\ BcInit /\ SrvInit /\ XcInit /\ DialInit /\ RdOff

Spec == Init /\ [][Next]_vars

NextXClient ==
    \/ \E a \in XcAddrs : XcDial(a)
    \/ \E id \in DOMAIN conns : XcShutdown(id)
    \/ XcClose

InitXClient == now = 0 /\ BucketOff /\ DiscOff /\ RegOff /\ ClientInit /\ BcInit /\ SrvInit /\ XcInit /\ DialInit /\ RdOff

SpecXClient == InitXClient /\ [][NextXClient]_vars

NextDial ==
    \/ \E p \in Callers, a \in XcAddrs : DialLock(p, a)
    \/ \E p \in Callers : DialLookup(p)
    \/ \E p \in Callers : DialConnect(p)
    \/ \E id \in DOMAIN conns : XcShutdown(id)
    \/ DialClose

InitDial == now = 0 /\ BucketOff /\ DiscOff /\ RegOff /\ ClientInit /\ BcInit /\ SrvInit /\ XcInit /\ DialInit /\ RdOff

SpecDial == InitDial /\ [][NextDial]_vars

NextRegDisc == RdGet \/ RdGetAll \/ RdUpdate \/ Tick

InitRegDisc == now = 0 /\ BucketOff /\ RdInit /\ RegOff /\ ClientInit /\ BcInit /\ SrvInit /\ XcInit /\ DialInit

SpecRegDisc == InitRegDisc /\ [][NextRegDisc]_vars

-----------------------------------------------------------------------------
(* Token bucket: properties *)

\* Allow calls that returned true at a time in [s, e].
AcceptedIn(s, e) ==
    Cardinality({k \in 1..Len(allowLog) :
                    allowLog[k][2] /\ s <= allowLog[k][1] /\ allowLog[k][1] <= e})

CeilDiv(a, b) == (a + b - 1) \div b

\* C2 as stated: in every window [s, e], of length T = e - s, at most
\* C + R * floor(T / I) Allow calls return true.
RateLimitFloorBound ==
    \A s, e \in 0..MaxTime :
        s <= e => AcceptedIn(s, e) <= tb.capacity + tb.refillAmount * ((e - s) \div tb.refillInterval)

\* C2 amended: in every window [s, e], of length T = e - s, at most
\* C + R * ceil(T / I) Allow calls return true.
RateLimitCeilBound ==
    \A s, e \in 0..MaxTime :
        s <= e => AcceptedIn(s, e) <= tb.capacity + tb.refillAmount * CeilDiv(e - s, tb.refillInterval)

\* A window shorter than the interval in which a refill let through more than
\* the capacity, and the amended bound is met exactly.
RateLimitWitness ==
    \E s, e \in 0..MaxTime :
        /\ s < e /\ e - s < tb.refillInterval
        /\ AcceptedIn(s, e) = tb.capacity + tb.refillAmount
        /\ tb.lastRefill = e

\* C19: 0 <= tokens <= capacity before and after every Allow; with toAdd the
\* tokens the refill step computes (whole intervals since lastRefill times
\* refillAmount) and filled the tokens after the capped top-up, Allow returns
\* true exactly when filled > 0 and then leaves filled - 1, and otherwise
\* leaves 0; lastRefill changes only when toAdd >= 1, and then to now.
TokenBucketInvariant ==
    [][ BucketAllow =>
          LET toAdd == ((now - tb.lastRefill) \div tb.refillInterval) * tb.refillAmount
              filled == IF toAdd > 0 THEN Min(tb.tokens + toAdd, tb.capacity) ELSE tb.tokens
              ok == allowLog'[Len(allowLog')][2]
          IN /\ 0 <= tb.tokens /\ tb.tokens <= tb.capacity
             /\ 0 <= tb'.tokens /\ tb'.tokens <= tb'.capacity
             /\ ok = (filled > 0)
             /\ tb'.tokens = IF ok THEN filled - 1 ELSE 0
             /\ tb'.lastRefill # tb.lastRefill => (toAdd >= 1 /\ tb'.lastRefill = now)
             /\ toAdd >= 1 => tb'.lastRefill = now ]_vars

\* A call was refused on an empty bucket and a later call was accepted after
\* a refill.
TokenBucketWitness ==
    /\ \E i, j \in 1..Len(allowLog) : i < j /\ ~allowLog[i][2] /\ allowLog[j][2]
    /\ tb.lastRefill > 0

-----------------------------------------------------------------------------
(* Discovery: properties *)

\* C3: while the list is not updated, any n = Len(servers) consecutive
\* Get(RoundRobinSelect) calls return each of the n servers exactly once.
RoundRobinFair ==
    LET n == Len(servers)
    IN \A k \in 1..Len(getLog) :
          k + n - 1 <= Len(getLog) =>
             /\ {getLog[j] : j \in k..(k + n - 1)} = Range(servers)
             /\ \A i, j \in k..(k + n - 1) : i # j => getLog[i] # getLog[j]

\* Two full rounds were served on a list of several servers, from an initial
\* index beyond the length of the list.
RoundRobinWitness ==
    /\ Len(servers) >= 2
    /\ Len(getLog) >= Len(servers) + 1
    /\ getLog[1] # servers[1]

\* C18: whatever Updates and Gets came before, a Get on an empty list returns
\* the "no available servers" error for every mode and leaves the index alone,
\* and a Get(RoundRobinSelect) on a non-empty list returns the element of the
\* current list at index mod n and leaves an index in [0, n).
RoundRobinUnderMutation ==
    [][ DiscGet =>
          LET n == Len(servers)
          IN /\ index >= 0
             /\ n = 0 => /\ index' = index
                         /\ getLog' = getLog
                         /\ \A mode \in {RandomSelect, RoundRobinSelect} :
                               Get(servers, index, mode, 0).err = ErrNoServers
             /\ (n > 0 /\ getLog' # getLog)
                   => /\ getLog'[Len(getLog')] \in Range(servers)
                      /\ getLog'[Len(getLog')] = servers[(index % n) + 1]
                      /\ index' \in 0..(n - 1) ]_vars

\* A Get(RoundRobinSelect) served the last server of a list of several, from
\* an index that left the next Get at the head of the list.
RoundRobinMutationWitness ==
    /\ Len(servers) >= 2
    /\ Len(getLog) = 1
    /\ getLog[1] = servers[Len(servers)]
    /\ index = 0

-----------------------------------------------------------------------------
(* Registry: properties *)

\* C4: with a timeout > 0, a GET leaves out of X-Geerpc-Servers, and removes
\* from the map, exactly the entries with start + timeout <= now, and lists and
\* keeps the others; with timeout = 0 no step ever removes an entry.
RegistryEvictionOnRead ==
    [][/\ (ServeGET /\ regTimeout > 0) =>
             \A a \in DOMAIN regServers :
                IF regServers[a] + regTimeout <= now
                THEN a \notin Range(lastResp'.list) /\ a \notin DOMAIN regServers'
                ELSE /\ a \in Range(lastResp'.list)
                     /\ a \in DOMAIN regServers'
                     /\ regServers'[a] = regServers[a]
       /\ (ServeGET /\ regTimeout = 0) => Range(lastResp'.list) = DOMAIN regServers
       /\ regTimeout = 0 => DOMAIN regServers \subseteq DOMAIN regServers'
      ]_vars

\* A GET answered with another server after the heartbeat server's entry had
\* expired and was removed.
RegistryEvictionWitness ==
    /\ lastResp.method = "GET"
    /\ regTimeout > 0
    /\ Len(lastResp.list) >= 1
    /\ hb.last >= 0
    /\ hb.last + regTimeout <= now
    /\ HbAddr \notin DOMAIN regServers

\* C10: while the server's Heartbeat task runs with an interval strictly shorter
\* than the registry timeout, every GET lists the server; once the task has
\* stopped, no GET issued more than the timeout after the last posted beat
\* lists it.
RegistryLifecycle ==
    [][ServeGET =>
          /\ (hb.pc = "waiting" /\ hb.duration < regTimeout)
                => HbAddr \in Range(lastResp'.list)
          /\ (hb.pc = "exited" /\ hb.duration < regTimeout /\ hb.last + regTimeout < now)
                => HbAddr \notin Range(lastResp'.list)
      ]_vars

\* A GET lists the heartbeating server at a time when its first entry would
\* have expired, the entry having been refreshed by a later beat.
RegistryLifecycleWitness ==
    /\ lastResp.method = "GET"
    /\ hb.pc = "waiting"
    /\ hb.duration < regTimeout
    /\ HbAddr \in Range(lastResp.list)
    /\ now >= regTimeout + 1
    /\ hb.last >= hb.duration
    /\ regServers[HbAddr] = hb.last

-----------------------------------------------------------------------------
(* Client: properties *)

\* A call has ended: it is out of the pending table and nothing still handles it.
Ended(c) == c.st \in {"replied", "srverr", "decodeerr", "terminated", "writefail", "cancelled"}

CloseIdempotent ==
    /\ codecCloses = (IF Len(closeLog) >= 1 THEN 1 ELSE 0)
    /\ closing = (Len(closeLog) >= 1)
    /\ \A k \in 1..Len(closeLog) : (closeLog[k] = ErrShutdown) = (k > 1)
    /\ Len(closeLog) >= 1 => ~IsAvailable

\* Close was called three times, with calls in flight.
CloseWitness ==
    /\ Len(closeLog) >= 3
    /\ closeLog[3] = ErrShutdown
    /\ codecCloses = 1
    /\ calls # << >>

-----------------------------------------------------------------------------
(* Broadcast: properties *)

\* The branches that went through the critical section before position k of
\* the order in which mu was taken.
Before(k) == {bc.order[j] : j \in 1..(k - 1)}

\* The position in that order of the first branch whose call failed
\* (succeeded), 0 when there is none.
FirstFailure ==
    IF \E k \in 1..Len(bc.order) : branches[bc.order[k]].err # Nil
    THEN CHOOSE k \in 1..Len(bc.order) :
            /\ branches[bc.order[k]].err # Nil
            /\ \A b \in Before(k) : branches[b].err = Nil
    ELSE 0

FirstSuccess ==
    IF \E k \in 1..Len(bc.order) : branches[bc.order[k]].err = Nil
    THEN CHOOSE k \in 1..Len(bc.order) :
            /\ branches[bc.order[k]].err = Nil
            /\ \A b \in Before(k) : branches[b].err # Nil
    ELSE 0

\* C6: the caller's reply is written at most once, by the first branch that
\* succeeded; every branch has its own fresh clone, which no other branch
\* writes; a nil reply is never written and nothing is cloned from it.
ReplyIsolation ==
    /\ Len(writes[ReplyObj]) <= 1
    /\ writes[ReplyObj] = (IF FirstSuccess = 0 \/ bc.replyNil THEN <<>>
                           ELSE <<bc.order[FirstSuccess]>>)
    /\ \A b \in DOMAIN branches :
          branches[b].clone # NoObj =>
             /\ branches[b].clone # ReplyObj
             /\ \A c \in DOMAIN branches : c # b => branches[c].clone # branches[b].clone
             /\ Range(writes[branches[b].clone]) \subseteq {b}
    /\ bc.replyNil =>
          /\ \A b \in DOMAIN branches : branches[b].clone = NoObj
          /\ \A o \in DOMAIN writes : writes[o] = <<>>

\* Broadcast returned after two branches had succeeded and one had written its
\* clone and failed; the reply was written once, by a branch other than the
\* first one started.
ReplyIsolationWitness ==
    /\ bc.pc = "returned"
    /\ Cardinality({b \in DOMAIN branches : branches[b].err = Nil}) >= 2
    /\ \E b \in DOMAIN branches : branches[b].err # Nil /\ writes[branches[b].clone] = <<b>>
    /\ Len(writes[ReplyObj]) = 1
    /\ writes[ReplyObj][1] # 1

\* What holds of e while the branches run: e is the error of the first failure
\* seen under mu and is never replaced; cancel() was called once, in the step
\* that recorded it.
FirstErrorRecorded ==
    /\ bc.e = (IF FirstFailure = 0 THEN Nil ELSE branches[bc.order[FirstFailure]].err)
    /\ bc.cancelCalls = (IF bc.e = Nil THEN 0 ELSE 1)
    /\ bc.e # Nil => bc.ctxDone

\* C7 as stated: Broadcast returns after every branch has finished; nil iff
\* every branch succeeded, otherwise the error of the first failure seen under
\* mu, which cancelled the context when it was recorded and is never replaced.
BroadcastErrorSemantics ==
    /\ FirstErrorRecorded
    /\ bc.pc = "returned" =>
          /\ \A b \in DOMAIN branches : branches[b].pc = "done"
          /\ (bc.result = Nil) = (\A b \in DOMAIN branches : branches[b].err = Nil)
          /\ bc.result # Nil => /\ FirstFailure # 0
                                /\ bc.result = branches[bc.order[FirstFailure]].err

\* C7 amended: when GetAll fails Broadcast returns its error without starting
\* a branch; otherwise Broadcast returns after every branch has finished, nil
\* iff every branch succeeded, else the error of the first failure seen under
\* mu, which cancelled the context when it was recorded and is never replaced.
BroadcastErrorSemanticsAfterGetAll ==
    /\ FirstErrorRecorded
    /\ bc.getAllErr =>
          /\ bc.pc = "returned" /\ bc.result = ErrGetAll
          /\ branches = << >> /\ bc.cancelCalls = 0
    /\ (bc.pc = "returned" /\ ~bc.getAllErr) =>
          /\ \A b \in DOMAIN branches : branches[b].pc = "done"
          /\ (bc.result = Nil) = (\A b \in DOMAIN branches : branches[b].err = Nil)
          /\ bc.result # Nil => /\ FirstFailure # 0
                                /\ bc.result = branches[bc.order[FirstFailure]].err

\* Broadcast returned the error of the first of two failed branches, the
\* second failure having been seen later and a success before both.
BroadcastErrorWitness ==
    /\ bc.pc = "returned"
    /\ Len(bc.order) = 3
    /\ branches[bc.order[1]].err = Nil
    /\ branches[bc.order[2]].err # Nil
    /\ branches[bc.order[3]].err # Nil
    /\ bc.result = branches[bc.order[2]].err
    /\ bc.cancelCalls = 1

-----------------------------------------------------------------------------
(* Server: properties *)

\* C1: once a request whose Service.Method cannot be resolved was read, and the
\* client has written its next request, the next frame the request loop
\* decodes as a header is the header of that next request.
FramingResync ==
    \A i \in 2..Len(readLog) :
        LET prev == readLog[i - 1]
        IN (/\ prev.kind = "hdr"
            /\ findService(prev.h.ServiceMethod) # ""
            /\ sent > prev.h.Seq)
              => /\ readLog[i].kind = "hdr"
                 /\ readLog[i].h.Seq = prev.h.Seq + 1

\* C8: every response the request loop writes, or is about to write, because
\* no token was available has a header with error = "rate limit exceeded" and
\* an empty service-method.
RateLimitRejectionFrame ==
    /\ \A f \in BagToSet(out) :
          f.by = "reject" => /\ f.h.Error = "rate limit exceeded"
                             /\ f.h.ServiceMethod = <<>>
    /\ (loop.pc \in {"send", "write"} /\ loop.resp.by = "reject")
          => /\ loop.resp.h.Error = "rate limit exceeded"
             /\ loop.resp.h.ServiceMethod = <<>>

-----------------------------------------------------------------------------
(* Heartbeat: properties *)

\* C11: Heartbeat posts its first beat before it returns; the task then posts
\* one beat per interval, each only when the beat before it returned no error;
\* once a beat has returned an error the task has exited and nothing about the
\* heartbeat changes any more.
HeartbeatStopOnError ==
    [][ /\ Heartbeat => (hb'.err \/ hb'.last = now)
        /\ HeartbeatTask => (~hb.err /\ now = hb.last + hb.duration)
        /\ hb.err => (hb.pc = "exited" /\ hb' = hb)
        /\ (hb.pc = "waiting" /\ now' # now) => now < hb.last + hb.duration ]_vars

\* A beat was posted, a later beat failed, and two intervals have gone by since
\* the last posted one.
HeartbeatStopWitness ==
    /\ hb.err
    /\ hb.pc = "exited"
    /\ hb.last >= 0
    /\ now >= hb.last + 2 * hb.duration

\* C12: when the request loop reads a request whose method resolves and whose
\* body fails to decode, the loop ends: it goes to wait for its workers, and
\* neither answers nor reads again.
BodyDecodeFatal ==
    [][ (LoopRead /\ readRequest(wire).err = "rpc server: read body err")
            => loop'.pc = "wait" ]_vars

\* The number of response frames written that carry seq n.
FramesOf(n) ==
    LET S == {f \in BagToSet(out) : f.h.Seq = n}
    IN BagCardinality([f \in S |-> CopiesIn(f, out)])

\* C13: for every launched worker no response with its request's seq is written
\* before the worker has returned, and exactly one once it has: the response
\* of whichever of the invocation and the timer won.
SingleResponse ==
    \A n \in DOMAIN workers :
        /\ FramesOf(n) = IF workers[n].pc = "done" THEN 1 ELSE 0
        /\ workers[n].pc = "done" => CopiesIn(workers[n].resp, out) = 1

\* One worker answered by its timer and another by its invocation.
SingleResponseWitness ==
    \E n, m \in DOMAIN workers :
        /\ workers[n].pc = "done" /\ workers[n].resp.by = "timer"
        /\ workers[m].pc = "done" /\ workers[m].resp.by = "worker"
        /\ FramesOf(n) = 1 /\ FramesOf(m) = 1

\* The tasks of the connection that are inside cc.Write.
InWrite ==
    (IF loop.pc = "write" THEN {LoopTask} ELSE {})
        \cup {WorkerTask(n) : n \in {m \in DOMAIN workers : workers[m].pc = "write"}}

\* C14: at most one task of a connection is inside cc.Write at any time, and it
\* is the task that holds the sending mutex.
SerializedWrites ==
    /\ Cardinality(InWrite) <= 1
    /\ InWrite = sending

\* A worker is inside cc.Write while the request loop and another worker each
\* have a response to send.
SerializedWritesWitness ==
    \E n, m \in DOMAIN workers :
        /\ workers[n].pc = "write"
        /\ workers[m].pc = "send"
        /\ loop.pc = "send"

\* C15: the wait-counter goes up by one exactly when a worker is launched and
\* down by one exactly when a worker returns, a worker that has returned stays
\* returned, no worker is launched once the request loop has ended, and the
\* codec is closed only when the loop has ended and the counter is zero.
TeardownAwaitsWorkers ==
    [][ /\ DOMAIN workers \subseteq DOMAIN workers'
        /\ loop.pc \in {"wait", "closed"} => DOMAIN workers' = DOMAIN workers
        /\ wg' = wg + Cardinality(DOMAIN workers' \ DOMAIN workers)
                    - Cardinality({n \in DOMAIN workers :
                                      workers[n].pc # "done" /\ workers'[n].pc = "done"})
        /\ \A n \in DOMAIN workers : workers[n].pc = "done" => workers'[n].pc = "done"
        /\ loop'.pc = "closed" => (loop.pc \in {"wait", "closed"} /\ wg' = 0) ]_vars

\* The request loop has ended and waits for two workers that have not returned.
TeardownWitness ==
    /\ loop.pc = "wait"
    /\ wg >= 2

-----------------------------------------------------------------------------
(* XClient: properties *)

\* C16: a dial that finds a cached client reporting unavailable closes that
\* client and deletes it from the cache before it dials; when the dial succeeds
\* the new client is the one cached under the address and returned, and when
\* it fails the error is returned and the cache has no entry for the address.
CacheEviction ==
    [][ \A a \in XcAddrs :
          (XcDial(a) /\ a \in DOMAIN clients /\ ~clientIsAvailable(conns[clients[a]]))
            => /\ conns'[clients[a]].closing
               /\ SubSeq(lastDial'.steps, 1, 3) = <<"close", "delete", "dial">>
               /\ lastDial'.err = ""
                    => /\ a \in DOMAIN clients'
                       /\ clients'[a] = lastDial'.client
                       /\ clients'[a] = Len(conns) + 1
                       /\ conns'[clients'[a]] = NewClient(a)
               /\ lastDial'.err # ""
                    => /\ lastDial'.client = 0
                       /\ a \notin DOMAIN clients' ]_vars

\* A dial evicted a stale client and its redial failed, while the other
\* address stays cached.
CacheEvictionWitness ==
    /\ lastDial.steps = <<"close", "delete", "dial">>
    /\ lastDial.err # ""
    /\ lastDial.addr \notin DOMAIN clients
    /\ clients # << >>

-----------------------------------------------------------------------------
(* GeeRegistryDiscovery: properties *)

\* C17: a Get or GetAll (a step that is not a tick of the clock and is logged
\* as one) issues one GET to the registry exactly when
\* lastUpdate + timeout <= now; otherwise it issues none, leaves the list and
\* lastUpdate alone and serves the cached list.  Update sets lastUpdate to now
\* and issues no GET.
RefreshOnExpiry ==
    [][ /\ (now' = now /\ rdLog'.op \in {"Get", "GetAll"})
            => /\ httpGets' = httpGets + (IF lastUpdate + rdTimeout <= now THEN 1 ELSE 0)
               /\ rdLog'.get = (lastUpdate + rdTimeout <= now)
               /\ lastUpdate + rdTimeout > now
                    => /\ servers' = servers
                       /\ lastUpdate' = lastUpdate
                       /\ rdLog'.op = "GetAll" => (rdLog'.err = "" /\ rdLog'.list = servers)
                       /\ rdLog'.op = "Get"
                            => IF servers = <<>> THEN rdLog'.err = ErrNoServers
                               ELSE rdLog'.err = "" /\ rdLog'.s \in Range(servers)
        /\ (now' = now /\ rdLog'.op = "Update")
            => (lastUpdate' = now /\ httpGets' = httpGets) ]_vars

\* The list was refreshed from the registry twice, the second time after it
\* expired, and the last Get was served from the cache.
RefreshWitness ==
    /\ httpGets >= 2
    /\ lastUpdate > 0
    /\ rdLog.op = "Get"
    /\ ~rdLog.get
    /\ rdLog.err = ""
    /\ now > lastUpdate

\* The request headers the loop has read: the frames it decoded as a header
\* that were one.
HeadersRead == Cardinality({i \in 1..Len(readLog) : readLog[i].kind = "hdr"})

\* The response frames written that are not rate-limit rejections.
ResponsesWritten ==
    LET S == {f \in BagToSet(out) : f.by # "reject"}
    IN BagCardinality([f \in S |-> CopiesIn(f, out)])

\* C20 as stated: the server has written at most as many response frames as it
\* has read request headers.
NoUnsolicitedResponses == BagCardinality(out) <= HeadersRead

\* C20: the server has written at most as many response frames other than
\* rate-limit rejections as it has read request headers.
NoUnsolicitedAnswers == ResponsesWritten <= HeadersRead

\* Every header read has its response written, and a rejection was written
\* beside them.
NoUnsolicitedWitness ==
    /\ HeadersRead >= ServerCapacity
    /\ ResponsesWritten = HeadersRead
    /\ BagCardinality(out) > HeadersRead

-----------------------------------------------------------------------------
(* XClient: properties of concurrent dials *)

\* C21: under every interleaving of the callers of dial, XDial is being
\* invoked for an address only while the cache has no client for it, the
\* Clients XDial has returned hold at most one available client per address,
\* the cache maps an address to a client of that address, and the callers that
\* were given a client of one address that is still available were given the
\* same one, the cached one.
SingleConnectionPerAddress ==
    /\ \A p \in Callers : callers[p].pc = "dialing" => callers[p].addr \notin DOMAIN clients
    /\ \A i, j \in DOMAIN conns :
          (conns[i].addr = conns[j].addr /\ clientIsAvailable(conns[i])
              /\ clientIsAvailable(conns[j])) => i = j
    /\ \A a \in DOMAIN clients : conns[clients[a]].addr = a
    /\ \A p \in Callers :
          (callers[p].pc = "idle" /\ callers[p].client # 0
              /\ clientIsAvailable(conns[callers[p].client]))
            => /\ callers[p].addr \in DOMAIN clients
               /\ clients[callers[p].addr] = callers[p].client

\* Two goroutines dialled the same address and hold the same available client,
\* the only one XDial has returned.
SingleConnectionWitness ==
    /\ Len(conns) = 1
    /\ \A p \in Callers :
          /\ callers[p].pc = "idle"
          /\ callers[p].client = 1
          /\ callers[p].addr = conns[1].addr
    /\ clientIsAvailable(conns[1])

-----------------------------------------------------------------------------
(* GeeRegistryDiscovery: properties of a failed refresh *)

\* C22: a Get or GetAll whose GET to the registry fails leaves the list, the
\* round-robin index and lastUpdate as they were and returns the error with no
\* server and no list; and the Get or GetAll that follows it, with no Update
\* in between, issues the GET again.
FailedRefreshFrame ==
    [][ /\ (now' = now /\ rdLog'.op \in {"Get", "GetAll"} /\ rdLog'.err = "http error")
            => /\ rdLog'.get
               /\ servers' = servers
               /\ index' = index
               /\ lastUpdate' = lastUpdate
               /\ rdLog'.s = NoServer
               /\ rdLog'.list = <<>>
               /\ lastUpdate' + rdTimeout <= now'
        /\ (now' = now /\ rdLog'.op \in {"Get", "GetAll"} /\ rdLog.err = "http error")
            => rdLog'.get ]_vars

\* A Get failed on its second GET to the registry while the cached list holds
\* servers.
FailedRefreshWitness ==
    /\ rdLog.op = "Get"
    /\ rdLog.err = "http error"
    /\ servers # <<>>
    /\ httpGets >= 2

=============================================================================
